---- MODULE Spec2Model ----
(***************************************************************************)
(* Filesystem file-upload backend of edx-ora2                              *)
(* (openassessment/fileupload/backends/filesystem.py, fileupload/urls.py). *)
(*                                                                         *)
(* Text is modelled as sequences of one-character strings, so that the     *)
(* cache keys "upload/" + key, the URLs and the physical paths are built   *)
(* by concatenation exactly as the code builds them.                       *)
(*                                                                         *)
(* Requests run on concurrent workers.  A request is cut at every access   *)
(* to the two shared resources (the cache and the filesystem): the grant   *)
(* check and the blob operation of one request are two steps.              *)
(***************************************************************************)
EXTENDS Integers, Sequences, FiniteSets, TLC

VARIABLES
    now,                    \* the clock the cache measures timeouts against
    settings,               \* django.conf.settings: ORA2_FILEUPLOAD_*
    UPLOAD_URL_TIMEOUT,     \* BaseBackend.UPLOAD_URL_TIMEOUT (seconds)
    DOWNLOAD_URL_TIMEOUT,   \* BaseBackend.DOWNLOAD_URL_TIMEOUT (seconds)
    cache,                  \* the django cache: cache key -> expiry time
    files,                  \* the filesystem: file path -> content
    pc,                     \* each worker's position in its request
    req,                    \* each worker's request, and its outcome
    upload_issued,          \* history: key -> time of the most recent
                            \* get_upload_url call for the key
    written,                \* history: key -> payload of the most recent
                            \* completed write not removed since
    call,                   \* the key-addressing function called last, with
                            \* its argument and what it returned
    student_items,          \* the rows of the StudentItem table
    submissions,            \* the rows of the Submission table
    scores                  \* the rows of the Score table

\* the tables of apps/submissions/models.py
ledger == <<student_items, submissions, scores>>

vars == <<now, settings, UPLOAD_URL_TIMEOUT, DOWNLOAD_URL_TIMEOUT,
          cache, files, pc, req, upload_issued, written, call, ledger>>

-----------------------------------------------------------------------------
(* Bounds and input sets *)

MaxTime == 2

Workers == {"w1", "w2"}

\* "a", "a|f" (composite key with a file name) and "|f" (composite key
\* with an empty storage component)
Keys == {<<"a">>, <<"a", "|", "f">>, <<"|", "f">>}

\* the keys of the requests that run concurrently: "a" and "|f"
ConcurrentKeys == {<<"a">>, <<"|", "f">>}

Payloads == {"b1", "b2"}

UploadTimeouts == {-1, 0, 2}

DownloadTimeouts == {0, 1}

-----------------------------------------------------------------------------
(* Text helpers *)

None == "None"

FileUploadInternalError == "FileUploadInternalError"

NoReverseMatch == "NoReverseMatch"

\* str.find: index of the first occurrence of c in s, 0 when there is none
RECURSIVE FindFrom(_, _, _)
FindFrom(s, c, i) ==
    IF i > Len(s) THEN 0
    ELSE IF s[i] = c THEN i
    ELSE FindFrom(s, c, i + 1)

\* str.rfind: index of the last occurrence of c in s, 0 when there is none
RECURSIVE RFindFrom(_, _, _)
RFindFrom(s, c, i) ==
    IF i < 1 THEN 0
    ELSE IF s[i] = c THEN i
    ELSE RFindFrom(s, c, i - 1)

\* str.rsplit(sep, 1) for str.split(sep, 1): the split is at the last sep
Split1_Last(s, sep) ==
    LET i == RFindFrom(s, sep, Len(s))
    IN  IF i = 0 THEN <<s>>
        ELSE <<SubSeq(s, 1, i - 1), SubSeq(s, i + 1, Len(s))>>

\* str.split(sep, 1)
Split1(s, sep) ==
    LET i == FindFrom(s, sep, 1)
    IN  IF i = 0 THEN <<s>>
        ELSE <<SubSeq(s, 1, i - 1), SubSeq(s, i + 1, Len(s))>>

\* str.split("/")
RECURSIVE SplitAll(_, _)
SplitAll(s, sep) ==
    LET i == FindFrom(s, sep, 1)
    IN  IF i = 0 THEN <<s>>
        ELSE <<SubSeq(s, 1, i - 1)>> \o SplitAll(SubSeq(s, i + 1, Len(s)), sep)

\* "/".join(comps)
RECURSIVE JoinAll(_)
JoinAll(comps) ==
    IF Len(comps) = 0 THEN <<>>
    ELSE IF Len(comps) = 1 THEN comps[1]
    ELSE comps[1] \o <<"/">> \o JoinAll(Tail(comps))

\* posixpath.join(a, b)
PathJoin(a, b) ==
    IF Len(b) > 0 /\ b[1] = "/" THEN b
    ELSE IF Len(a) = 0 \/ a[Len(a)] = "/" THEN a \o b
    ELSE a \o <<"/">> \o b

\* the loop of posixpath.normpath over the components
RECURSIVE NormComps(_, _, _)
NormComps(comps, new_comps, initial_slashes) ==
    IF Len(comps) = 0 THEN new_comps
    ELSE LET comp == Head(comps)
             n    == Len(new_comps)
         IN  IF comp = <<>> \/ comp = <<".">>
               THEN NormComps(Tail(comps), new_comps, initial_slashes)
             ELSE IF \/ comp # <<".", ".">>
                     \/ (initial_slashes = 0 /\ n = 0)
                     \/ (n > 0 /\ new_comps[n] = <<".", ".">>)
               THEN NormComps(Tail(comps), Append(new_comps, comp), initial_slashes)
             ELSE IF n > 0
               THEN NormComps(Tail(comps), SubSeq(new_comps, 1, n - 1), initial_slashes)
             ELSE NormComps(Tail(comps), new_comps, initial_slashes)

\* posixpath.normpath
NormPath(path) ==
    IF path = <<>> THEN <<".">>
    ELSE
    LET initial_slashes ==
            IF path[1] # "/" THEN 0
            ELSE IF Len(path) >= 2 /\ path[2] = "/"
                    /\ ~(Len(path) >= 3 /\ path[3] = "/") THEN 2
            ELSE 1
        body == JoinAll(NormComps(SplitAll(path, "/"), <<>>, initial_slashes))
        out  == IF initial_slashes = 2 THEN <<"/", "/">> \o body
                ELSE IF initial_slashes = 1 THEN <<"/">> \o body
                ELSE body
    IN  IF out = <<>> THEN <<".">> ELSE out

\* the working directory of the serving process
Cwd == <<"/", "w">>

\* posixpath.abspath
AbsPath(path) ==
    IF Len(path) > 0 /\ path[1] = "/" THEN NormPath(path)
    ELSE NormPath(PathJoin(Cwd, path))

-----------------------------------------------------------------------------
(* Configuration *)

\* ORA2_FILEUPLOAD_CACHE_NAME = "ora2-storage"
CacheName == "ora2-storage"

\* ORA2_FILEUPLOAD_ROOT of the deployment: "/r"
RootDir == <<"/", "r">>

\* Settings.get_bucket_name(): "b"
BucketName == <<"b">>

\* where the deployment includes openassessment.fileupload.urls: "/s"
UrlPrefix == <<"/", "s">>

Configured == [ORA2_FILEUPLOAD_CACHE_NAME |-> CacheName,
               ORA2_FILEUPLOAD_ROOT       |-> RootDir]

\* get_cache that falls back to the default cache when no name is set
get_cache_Default ==
    LET cache_name == settings.ORA2_FILEUPLOAD_CACHE_NAME
    IN  IF cache_name = None THEN "default" ELSE cache_name

\* get_cache(): the cache instance, or FileUploadInternalError raised
get_cache ==
    LET cache_name == settings.ORA2_FILEUPLOAD_CACHE_NAME
    IN  IF cache_name = None THEN FileUploadInternalError ELSE cache_name

\* Backend._get_root_directory_path(): the root, or FileUploadInternalError
get_root_directory_path ==
    LET root_dir == settings.ORA2_FILEUPLOAD_ROOT
    IN  IF root_dir = <<>> THEN <<FileUploadInternalError>> ELSE root_dir

root_directory_raises == settings.ORA2_FILEUPLOAD_ROOT = <<>>

-----------------------------------------------------------------------------
(* The cache: set(key, value, timeout) and get(key) *)

\* the entries of c that have not expired at time t
Unexpired(c, t) ==
    LET live == {x \in DOMAIN c : t < c[x]}
    IN  [x \in live |-> c[x]]

\* cache.set(key, 1, timeout) at time t: the entry expires at t + timeout;
\* with a timeout of zero or less it has expired as soon as it is set
CacheSet(c, key, timeout, t) ==
    Unexpired([x \in DOMAIN c \cup {key} |->
                   IF x = key THEN t + timeout ELSE c[x]], t)

\* cache.get(key) at time t: {1} for the stored marker, {} for None
CacheGet(c, key, t) ==
    IF key \in DOMAIN c /\ t < c[key] THEN {1} ELSE {}

\* smart_text(s): a text string is returned as it is
smart_text(s) == s

get_upload_cache_key(url_key_name) ==
    <<"u", "p", "l", "o", "a", "d", "/">> \o url_key_name

\* get_download_cache_key with the prefix of the upload grants
get_download_cache_key_Upload(url_key_name) ==
    <<"u", "p", "l", "o", "a", "d", "/">> \o url_key_name

get_download_cache_key(url_key_name) ==
    <<"d", "o", "w", "n", "l", "o", "a", "d", "/">> \o url_key_name

\* make_upload_url_available that passes no timeout: the grant never expires
make_upload_url_available_NoTimeout(url_key_name, timeout) ==
    CacheSet(cache, smart_text(get_upload_cache_key(url_key_name)),
             MaxTime + 1, now)

\* make_upload_url_available with cache.add for cache.set: a live grant is
\* left as it is
make_upload_url_available_Add(url_key_name, timeout) ==
    LET ck == smart_text(get_upload_cache_key(url_key_name))
    IN  IF CacheGet(cache, ck, now) # {} THEN cache
        ELSE CacheSet(cache, ck, timeout, now)

\* make_upload_url_available that takes a live grant of the key away, as
\* if the grant were a lock held by the caller that set it
make_upload_url_available_Toggle(url_key_name, timeout) ==
    LET ck == smart_text(get_upload_cache_key(url_key_name))
    IN  IF CacheGet(cache, ck, now) # {}
          THEN [x \in DOMAIN cache \ {ck} |-> cache[x]]
          ELSE CacheSet(cache, ck, timeout, now)

\* the cache after make_upload_url_available(url_key_name, timeout)
make_upload_url_available(url_key_name, timeout) ==
    CacheSet(cache, smart_text(get_upload_cache_key(url_key_name)), timeout, now)

\* the cache after make_download_url_available(url_key_name, timeout)
make_download_url_available(url_key_name, timeout) ==
    CacheSet(cache, smart_text(get_download_cache_key(url_key_name)), timeout, now)

\* is_upload_url_available that looks for any upload grant, not the key's
is_upload_url_available_AnyKey(url_key_name, available) ==
    /\ available = \E k \in Keys :
           CacheGet(cache, smart_text(get_upload_cache_key(k)), now) # {}
    /\ cache' = cache

\* is_upload_url_available that deletes the grant it finds
is_upload_url_available_Consume(url_key_name, available) ==
    LET ck == smart_text(get_upload_cache_key(url_key_name))
    IN  /\ available = (CacheGet(cache, ck, now) # {})
        /\ cache' = [x \in DOMAIN cache \ {ck} |-> cache[x]]

\* is_upload_url_available with cache.get(key, 1): the default stands in
\* for a grant that is not there
is_upload_url_available_Default(url_key_name, available) ==
    /\ available =
          (CacheGet(cache, smart_text(get_upload_cache_key(url_key_name)), now)
              \cup {1} # {})
    /\ cache' = cache

\* is_upload_url_available(url_key_name) returns available; the cache is
\* read, not written
is_upload_url_available(url_key_name, available) ==
    /\ available =
          (CacheGet(cache, smart_text(get_upload_cache_key(url_key_name)), now)
              # {})
    /\ cache' = cache

\* is_download_url_available(url_key_name) returns available; the cache is
\* read, not written
is_download_url_available(url_key_name, available) ==
    /\ available =
          (CacheGet(cache, smart_text(get_download_cache_key(url_key_name)), now)
              # {})
    /\ cache' = cache

-----------------------------------------------------------------------------
(* Key addressing *)

\* BaseBackend._get_key_name(key): the key name of a logical key
get_key_name(key) == key

get_bucket_path == AbsPath(PathJoin(get_root_directory_path, BucketName))

get_data_path(key) == PathJoin(get_bucket_path, key)

\* _get_file_path on the part of the key before its first "|"
get_file_path_StorageKey(key) ==
    PathJoin(get_data_path(Split1(key, "|")[1]),
             <<"c", "o", "n", "t", "e", "n", "t">>)

get_file_path(key) ==
    PathJoin(get_data_path(key), <<"c", "o", "n", "t", "e", "n", "t">>)

\* get_file_path on the storage component of the key, the part before "|"
views_get_file_path_StorageKey(key) ==
    PathJoin(PathJoin(AbsPath(PathJoin(get_root_directory_path, BucketName)),
                      Split1(key, "|")[1]),
             <<"c", "o", "n", "t", "e", "n", "t">>)

\* views_filesystem.get_file_path(key): the content file the serving layer
\* and remove_file use, root / bucket / key / "content"
views_get_file_path(key) ==
    PathJoin(PathJoin(AbsPath(PathJoin(get_root_directory_path, BucketName)), key),
             <<"c", "o", "n", "t", "e", "n", "t">>)

\* the regular expressions of the two url patterns
MatchesNoPipePlus(s) == Len(s) > 0 /\ \A i \in 1..Len(s) : s[i] # "|"

MatchesDotPlus(s) == Len(s) > 0 /\ \A i \in 1..Len(s) : s[i] # "\n"

\* reverse("openassessment-filesystem-storage", kwargs={'key': key})
reverse_key(key) ==
    IF MatchesDotPlus(key)
      THEN [status |-> "ok", url |-> UrlPrefix \o key \o <<"/">>]
      ELSE [status |-> NoReverseMatch, url |-> <<>>]

\* reverse(..., kwargs={'key': key, 'filename': filename})
reverse_key_filename(key, filename) ==
    IF MatchesNoPipePlus(key) /\ MatchesDotPlus(filename)
      THEN [status |-> "ok",
            url |-> UrlPrefix \o key \o <<"|">> \o filename \o <<"/">>]
      ELSE [status |-> NoReverseMatch, url |-> <<>>]

\* Backend._get_url(key): the URL, or NoReverseMatch raised
get_url(key) ==
    LET key_name == Split1(get_key_name(key), "|")
    IN  IF Len(key_name) = 1
          THEN reverse_key(key_name[1])
          ELSE reverse_key_filename(key_name[1], key_name[2])

\* the kwargs Backend._get_url(key) passes to reverse
get_url_kwargs(key) ==
    LET key_name == Split1(get_key_name(key), "|")
    IN  IF Len(key_name) = 1
          THEN [key |-> key_name[1]]
          ELSE [key |-> key_name[1], filename |-> key_name[2]]

Resolver404 == "Resolver404"

\* the part of path that a regular expression ending in "/$" matches up to
\* that "/": "$" matches at the end and before a newline that ends the text
BeforeSlashEnd(path) ==
    LET n    == Len(path)
        body == IF n > 0 /\ path[n] = "\n" THEN SubSeq(path, 1, n - 1) ELSE path
        m    == Len(body)
    IN  IF m > 0 /\ body[m] = "/"
          THEN [matched |-> TRUE, text |-> SubSeq(body, 1, m - 1)]
          ELSE [matched |-> FALSE, text |-> <<>>]

\* re.search(r'^(?P<key>[^|]+)\|(?P<filename>.+)/$', path): the groups
match_key_filename(path) ==
    LET i    == FindFrom(path, "|", 1)
        rest == BeforeSlashEnd(SubSeq(path, i + 1, Len(path)))
    IN  IF i > 1 /\ rest.matched /\ MatchesDotPlus(rest.text)
          THEN [matched |-> TRUE,
                kwargs  |-> [key |-> SubSeq(path, 1, i - 1), filename |-> rest.text]]
          ELSE [matched |-> FALSE, kwargs |-> <<>>]

\* re.search(r'^(?P<key>.+)/$', path): the group
match_key(path) ==
    LET rest == BeforeSlashEnd(path)
    IN  IF rest.matched /\ MatchesDotPlus(rest.text)
          THEN [matched |-> TRUE, kwargs |-> [key |-> rest.text]]
          ELSE [matched |-> FALSE, kwargs |-> <<>>]

\* resolve(url): the kwargs of the first of the urlpatterns that matches the
\* path below the prefix, or Resolver404 raised
resolve(url) ==
    LET p    == Len(UrlPrefix)
        path == SubSeq(url, p + 1, Len(url))
    IN  IF Len(url) < p \/ SubSeq(url, 1, p) # UrlPrefix
          THEN [status |-> Resolver404, kwargs |-> <<>>]
        ELSE IF match_key_filename(path).matched
          THEN [status |-> "ok", kwargs |-> match_key_filename(path).kwargs]
        ELSE IF match_key(path).matched
          THEN [status |-> "ok", kwargs |-> match_key(path).kwargs]
        ELSE [status |-> Resolver404, kwargs |-> <<>>]

-----------------------------------------------------------------------------
(* The blob store *)

\* os.path.exists(path)
path_exists(path) == path \in DOMAIN files

\* the filesystem after the content file is written, directories made
write_file(fs, path, data) ==
    [x \in DOMAIN fs \cup {path} |-> IF x = path THEN data ELSE fs[x]]

\* safe_remove(path): the filesystem after the call; a missing file is left
safe_remove(fs, path) ==
    IF path \in DOMAIN fs THEN [x \in DOMAIN fs \ {path} |-> fs[x]] ELSE fs

-----------------------------------------------------------------------------
(* Requests *)

NoRequest == [op |-> "none", key |-> <<>>, data |-> "", status |-> "",
              url |-> <<>>, prior |-> ""]

\* no key-addressing function has been called
NoCall == [fn |-> "none"]

Request(op, key, data) == [NoRequest EXCEPT !.op = op, !.key = key, !.data = data]

\* the request of worker w moves to position p with request record r
Goto(w, p, r) ==
    /\ pc' = [pc EXCEPT ![w] = p]
    /\ req' = [req EXCEPT ![w] = r]

\* history (req.prior): what a get_upload_url call found in place of the
\* grant it sets; what a remove_file call found in place of the content file;
\* the state of the upload grant at the blob write of a write request
PriorGrant(key, ck) ==
    IF CacheGet(cache, ck, now) # {} THEN "live"
    ELSE IF key \in DOMAIN upload_issued THEN "expired"
    ELSE "none"

Init ==
    /\ now = 0
    /\ settings = Configured
    /\ UPLOAD_URL_TIMEOUT \in UploadTimeouts
    /\ DOWNLOAD_URL_TIMEOUT \in DownloadTimeouts
    /\ cache = <<>>
    /\ files = <<>>
    /\ pc = [w \in Workers |-> "idle"]
    /\ req = [w \in Workers |-> NoRequest]
    /\ upload_issued = <<>>
    /\ written = <<>>
    /\ call = NoCall
    /\ student_items = {}
    /\ submissions = {}
    /\ scores = {}

\* time passes; the cache drops the entries that expire
Tick ==
    /\ now < MaxTime
    /\ now' = now + 1
    /\ cache' = Unexpired(cache, now + 1)
    /\ UNCHANGED <<settings, UPLOAD_URL_TIMEOUT, DOWNLOAD_URL_TIMEOUT,
                   files, pc, req, upload_issued, written, call, ledger>>

\* Backend.get_upload_url(key, content_type)
get_upload_url(w, key) ==
    /\ pc[w] = "idle"
    /\ LET r  == Request("get_upload_url", key, "")
           ck == smart_text(get_upload_cache_key(get_key_name(key)))
       IN  IF get_cache = FileUploadInternalError
             THEN /\ Goto(w, "done", [r EXCEPT !.status = FileUploadInternalError])
                  /\ UNCHANGED <<cache, upload_issued>>
             ELSE /\ cache' = make_upload_url_available(get_key_name(key),
                                                        UPLOAD_URL_TIMEOUT)
                  /\ upload_issued' = [x \in DOMAIN upload_issued \cup {key} |->
                                          IF x = key THEN now ELSE upload_issued[x]]
                  /\ Goto(w, "done", [r EXCEPT !.status = get_url(key).status,
                                               !.url = get_url(key).url,
                                               !.prior = PriorGrant(key, ck)])
    /\ UNCHANGED <<call, ledger, now, settings,
                   UPLOAD_URL_TIMEOUT, DOWNLOAD_URL_TIMEOUT,
                   files, written>>

\* get_download_url without the existence check
get_download_url_exists_Unchecked(w, key) ==
    /\ pc[w] = "idle"
    /\ Goto(w, "grant", Request("get_download_url", key, ""))
    /\ UNCHANGED <<call, ledger, now, settings,
                   UPLOAD_URL_TIMEOUT, DOWNLOAD_URL_TIMEOUT,
                   cache, files, upload_issued, written>>

\* get_download_url that registers the grant before the existence check
get_download_url_exists_GrantFirst(w, key) ==
    /\ pc[w] = "idle"
    /\ cache' = make_download_url_available(get_key_name(key),
                                            DOWNLOAD_URL_TIMEOUT)
    /\ LET r == Request("get_download_url", key, "")
       IN  IF ~path_exists(get_file_path(get_key_name(key)))
             THEN Goto(w, "done", [r EXCEPT !.status = "ok", !.url = <<>>])
             ELSE Goto(w, "grant", r)
    /\ UNCHANGED <<call, ledger, now, settings,
                   UPLOAD_URL_TIMEOUT, DOWNLOAD_URL_TIMEOUT,
                   files, upload_issued, written>>

\* Backend.get_download_url(key), to the existence check of the content file
get_download_url_exists(w, key) ==
    /\ pc[w] = "idle"
    /\ LET r == Request("get_download_url", key, "")
       IN  IF root_directory_raises
             THEN Goto(w, "done", [r EXCEPT !.status = FileUploadInternalError])
           ELSE IF ~path_exists(get_file_path(get_key_name(key)))
             THEN Goto(w, "done", [r EXCEPT !.status = "ok", !.url = <<>>])
           ELSE Goto(w, "grant", r)
    /\ UNCHANGED <<call, ledger, now, settings,
                   UPLOAD_URL_TIMEOUT, DOWNLOAD_URL_TIMEOUT,
                   cache, files, upload_issued, written>>

\* Backend.get_download_url(key), from the grant to the returned URL
get_download_url_grant(w) ==
    /\ pc[w] = "grant"
    /\ LET r   == req[w]
           key == r.key
       IN  IF get_cache = FileUploadInternalError
             THEN /\ Goto(w, "done", [r EXCEPT !.status = FileUploadInternalError])
                  /\ UNCHANGED cache
             ELSE /\ cache' = make_download_url_available(get_key_name(key),
                                                          DOWNLOAD_URL_TIMEOUT)
                  /\ Goto(w, "done", [r EXCEPT !.status = get_url(key).status,
                                               !.url = get_url(key).url])
    /\ UNCHANGED <<call, ledger, now, settings,
                   UPLOAD_URL_TIMEOUT, DOWNLOAD_URL_TIMEOUT,
                   files, upload_issued, written>>

\* remove_file with os.remove for safe_remove: a missing file raises
remove_file_Unsafe(w, key) ==
    /\ pc[w] = "idle"
    /\ LET r    == Request("remove_file", key, "")
           path == views_get_file_path(get_key_name(key))
       IN  /\ files' = safe_remove(files, path)
           /\ written' = [x \in DOMAIN written \ {key} |-> written[x]]
           /\ Goto(w, "done", [r EXCEPT !.status = IF path_exists(path) THEN "ok"
                                                   ELSE "OSError"])
    /\ UNCHANGED <<call, ledger, now, settings,
                   UPLOAD_URL_TIMEOUT, DOWNLOAD_URL_TIMEOUT,
                   cache, upload_issued>>

\* remove_file that also deletes the download grant of the key
remove_file_Revoke(w, key) ==
    /\ pc[w] = "idle"
    /\ LET r    == Request("remove_file", key, "")
           path == views_get_file_path(get_key_name(key))
           ck   == smart_text(get_download_cache_key(get_key_name(key)))
       IN  /\ files' = safe_remove(files, path)
           /\ written' = [x \in DOMAIN written \ {key} |-> written[x]]
           /\ cache' = [x \in DOMAIN cache \ {ck} |-> cache[x]]
           /\ Goto(w, "done", [r EXCEPT !.status = "ok",
                                        !.prior = IF path_exists(path)
                                                    THEN "removed" ELSE "absent"])
    /\ UNCHANGED <<call, ledger, now, settings,
                   UPLOAD_URL_TIMEOUT, DOWNLOAD_URL_TIMEOUT,
                   upload_issued>>

\* Backend.remove_file(key)
remove_file(w, key) ==
    /\ pc[w] = "idle"
    /\ LET r    == Request("remove_file", key, "")
           path == views_get_file_path(get_key_name(key))
       IN  IF root_directory_raises
             THEN /\ Goto(w, "done", [r EXCEPT !.status = FileUploadInternalError])
                  /\ UNCHANGED <<files, written>>
             ELSE /\ files' = safe_remove(files, path)
                  /\ written' = IF path_exists(path)
                                  THEN [x \in DOMAIN written \ {key} |-> written[x]]
                                  ELSE written
                  /\ Goto(w, "done", [r EXCEPT !.status = "ok",
                                               !.prior = IF path_exists(path)
                                                           THEN "removed"
                                                           ELSE "absent"])
    /\ UNCHANGED <<call, ledger, now, settings,
                   UPLOAD_URL_TIMEOUT, DOWNLOAD_URL_TIMEOUT,
                   cache, upload_issued>>

\* the upload request of the serving layer, to the grant check
authorize_and_write_check(w, key, data) ==
    /\ pc[w] = "idle"
    /\ LET r == Request("authorize_and_write", key, data)
       IN  IF get_cache = FileUploadInternalError
             THEN /\ Goto(w, "done", [r EXCEPT !.status = FileUploadInternalError])
                  /\ UNCHANGED cache
             ELSE \E available \in BOOLEAN :
                    /\ is_upload_url_available(get_key_name(key), available)
                    /\ IF ~available
                         THEN Goto(w, "done", [r EXCEPT !.status = "access-denied"])
                         ELSE Goto(w, "write", r)
    /\ UNCHANGED <<call, ledger, now, settings,
                   UPLOAD_URL_TIMEOUT, DOWNLOAD_URL_TIMEOUT,
                   files, upload_issued, written>>

\* the upload request of the serving layer, the blob write
authorize_and_write_blob(w) ==
    /\ pc[w] = "write"
    /\ LET r == req[w]
       IN  IF root_directory_raises
             THEN /\ Goto(w, "done", [r EXCEPT !.status = FileUploadInternalError])
                  /\ UNCHANGED <<files, written>>
             ELSE /\ files' = write_file(files, views_get_file_path(get_key_name(r.key)),
                                         r.data)
                  /\ written' = [x \in DOMAIN written \cup {r.key} |->
                                    IF x = r.key THEN r.data ELSE written[x]]
                  /\ Goto(w, "done",
                          [r EXCEPT !.status = "ok",
                                    !.prior = PriorGrant(r.key,
                                        smart_text(get_upload_cache_key(
                                            get_key_name(r.key))))])
    /\ UNCHANGED <<call, ledger, now, settings,
                   UPLOAD_URL_TIMEOUT, DOWNLOAD_URL_TIMEOUT,
                   cache, upload_issued>>

\* the download request of the serving layer, to the grant check
authorize_and_read_check(w, key) ==
    /\ pc[w] = "idle"
    /\ LET r == Request("authorize_and_read", key, "")
       IN  IF get_cache = FileUploadInternalError
             THEN /\ Goto(w, "done", [r EXCEPT !.status = FileUploadInternalError])
                  /\ UNCHANGED cache
             ELSE \E available \in BOOLEAN :
                    /\ is_download_url_available(get_key_name(key), available)
                    /\ IF ~available
                         THEN Goto(w, "done", [r EXCEPT !.status = "access-denied"])
                         ELSE Goto(w, "read", r)
    /\ UNCHANGED <<call, ledger, now, settings,
                   UPLOAD_URL_TIMEOUT, DOWNLOAD_URL_TIMEOUT,
                   files, upload_issued, written>>

\* the download request of the serving layer, the blob read
authorize_and_read_blob(w) ==
    /\ pc[w] = "read"
    /\ LET r    == req[w]
           path == views_get_file_path(get_key_name(r.key))
       IN  IF root_directory_raises
             THEN Goto(w, "done", [r EXCEPT !.status = FileUploadInternalError])
           ELSE IF ~path_exists(path)
             THEN Goto(w, "done", [r EXCEPT !.status = "NotFound"])
           ELSE Goto(w, "done", [r EXCEPT !.status = "ok", !.data = files[path]])
    /\ UNCHANGED <<call, ledger, now, settings,
                   UPLOAD_URL_TIMEOUT, DOWNLOAD_URL_TIMEOUT,
                   cache, files, upload_issued, written>>

\* the caller takes the outcome; the worker is free for the next request
Return(w) ==
    /\ pc[w] = "done"
    /\ Goto(w, "idle", NoRequest)
    /\ UNCHANGED <<call, ledger, now, settings,
                   UPLOAD_URL_TIMEOUT, DOWNLOAD_URL_TIMEOUT,
                   cache, files, upload_issued, written>>

\* one step of a request of a worker of W on a key of K
Requests(W, K) ==
    \/ \E w \in W, key \in K : get_upload_url(w, key)
    \/ \E w \in W, key \in K : get_download_url_exists(w, key)
    \/ \E w \in W : get_download_url_grant(w)
    \/ \E w \in W, key \in K : remove_file(w, key)
    \/ \E w \in W, key \in K, data \in Payloads :
           authorize_and_write_check(w, key, data)
    \/ \E w \in W : authorize_and_write_blob(w)
    \/ \E w \in W, key \in K : authorize_and_read_check(w, key)
    \/ \E w \in W : authorize_and_read_blob(w)
    \/ \E w \in W : Return(w)

\* concurrent workers
Next == Tick \/ Requests(Workers, ConcurrentKeys)

Spec == Init /\ [][Next]_vars

\* one worker, one request after the other, every kind of key
NextSeq == Tick \/ Requests({"w1"}, Keys)

SpecSeq == Init /\ [][NextSeq]_vars

-----------------------------------------------------------------------------
(* Deployments with settings missing *)

\* the settings of a deployment: each of the two either set or not set
Deployments ==
    [ORA2_FILEUPLOAD_CACHE_NAME : {CacheName, None},
     ORA2_FILEUPLOAD_ROOT       : {RootDir, <<>>}]

ConfKeys == {<<"a">>, <<"a", "|", "f">>}

\* the storage a deployment starts with: empty, or the content of key "a"
\* left by an earlier run
StoredBefore ==
    {<<>>, [k \in {<<"a">>} |-> "b1"]}

\* any deployment, on storage that is empty or holds one content file
InitConf ==
    /\ now = 0
    /\ settings \in Deployments
    /\ UPLOAD_URL_TIMEOUT = 2
    /\ DOWNLOAD_URL_TIMEOUT = 1
    /\ cache = <<>>
    /\ written \in StoredBefore
    /\ files = [path \in {<<"/", "r", "/", "b", "/">> \o k
                              \o <<"/", "c", "o", "n", "t", "e", "n", "t">> :
                          k \in DOMAIN written} |-> "b1"]
    /\ pc = [w \in Workers |-> "idle"]
    /\ req = [w \in Workers |-> NoRequest]
    /\ upload_issued = <<>>
    /\ call = NoCall
    /\ student_items = {}
    /\ submissions = {}
    /\ scores = {}

NextConf == Tick \/ Requests({"w1"}, ConfKeys)

SpecConf == InitConf /\ [][NextConf]_vars

-----------------------------------------------------------------------------
(* Key addressing, function by function *)

\* the characters of the keys: a letter, the separator of the composite
\* key, the separator and the dot of paths, and a newline
KeyChars == {"a", "|", "/", ".", "\n"}

AddrMaxLen == 5

\* every text of at most AddrMaxLen characters of KeyChars
AddrKeys == UNION {[1..n -> KeyChars] : n \in 0..AddrMaxLen}

\* what an addressing call leaves alone
AddrUnchanged ==
    UNCHANGED <<ledger, now, settings, UPLOAD_URL_TIMEOUT, DOWNLOAD_URL_TIMEOUT,
                cache, files, pc, req, upload_issued, written>>

\* a call of Backend._get_url on the key drawn
get_url_call ==
    /\ call.fn = "none"
    /\ call' = [fn     |-> "_get_url",
                key    |-> call.key,
                kwargs |-> get_url_kwargs(call.key),
                status |-> get_url(call.key).status,
                url    |-> get_url(call.key).url]
    /\ AddrUnchanged

\* the URL dispatcher resolves the URL that _get_url returned
resolve_call ==
    /\ call.fn = "_get_url"
    /\ call.status = "ok"
    /\ call' = [fn     |-> "resolve",
                key    |-> call.key,
                url    |-> call.url,
                status |-> resolve(call.url).status,
                kwargs |-> resolve(call.url).kwargs]
    /\ AddrUnchanged

\* a call of Backend._get_file_path on the key drawn
get_file_path_call ==
    /\ call.fn = "none"
    /\ call' = [fn   |-> "_get_file_path",
                key  |-> call.key,
                path |-> get_file_path(get_key_name(call.key))]
    /\ AddrUnchanged

\* the key of the calls is any text of AddrKeys
InitAddr ==
    /\ now = 0
    /\ settings = Configured
    /\ UPLOAD_URL_TIMEOUT = 2
    /\ DOWNLOAD_URL_TIMEOUT = 1
    /\ cache = <<>>
    /\ files = <<>>
    /\ pc = [w \in Workers |-> "idle"]
    /\ req = [w \in Workers |-> NoRequest]
    /\ upload_issued = <<>>
    /\ written = <<>>
    /\ call \in {[fn |-> "none", key |-> key] : key \in AddrKeys}
    /\ student_items = {}
    /\ submissions = {}
    /\ scores = {}

NextAddr ==
    \/ get_url_call
    \/ resolve_call
    \/ get_file_path_call

SpecAddr == InitAddr /\ [][NextAddr]_vars

-----------------------------------------------------------------------------
(* The submissions ledger: apps/submissions/models.py *)

StudentIds == {"s1"}

CourseIds == {"c1"}

ItemIds == {"i1", "i2"}

ItemTypes == {"t1", "t2"}

\* the values of the fields of a StudentItem
StudentItemValues ==
    [student_id : StudentIds, course_id : CourseIds,
     item_id : ItemIds, item_type : ItemTypes]

IntegrityError == "IntegrityError"

\* StudentItem.Meta.unique_together with item_type added to the fields
unique_together_WithType == {"course_id", "student_id", "item_id", "item_type"}

\* StudentItem.Meta.unique_together: ("course_id", "student_id", "item_id")
unique_together == {"course_id", "student_id", "item_id"}

\* the rows of the table that an INSERT of the values v would duplicate
Duplicates(rows, v) ==
    {r \in rows : \A f \in unique_together : r[f] = v[f]}

\* the rows of the table whose fields have the values v
Matching(rows, v) ==
    {r \in rows : \A f \in DOMAIN v : r[f] = v[f]}

\* the row of a new StudentItem with the values v: the next id
StudentItemRow(rows, v) ==
    [id |-> Cardinality(rows) + 1, student_id |-> v.student_id,
     course_id |-> v.course_id, item_id |-> v.item_id, item_type |-> v.item_type]

\* what a ledger request leaves alone
BackendUnchanged ==
    UNCHANGED <<call, settings, UPLOAD_URL_TIMEOUT, DOWNLOAD_URL_TIMEOUT,
                cache, files, upload_issued, written>>

\* create StudentItem, the lookup: get_or_create(**v) finds the row with
\* the values v, or goes on to insert it
create_student_item_get(w, v) ==
    /\ pc[w] = "idle"
    /\ LET r     == Request("create_student_item", v, "")
           found == Matching(student_items, v)
       IN  IF found # {}
             THEN Goto(w, "done", [r EXCEPT !.status = "ok",
                                            !.data = CHOOSE x \in found : TRUE,
                                            !.prior = "found"])
             ELSE Goto(w, "insert", r)
    /\ UNCHANGED <<now, ledger>>
    /\ BackendUnchanged

\* create StudentItem, the INSERT: the database refuses a row that
\* duplicates one on the unique_together fields; get_or_create then looks
\* the values up again and raises IntegrityError when they are still not there
create_student_item_insert(w) ==
    /\ pc[w] = "insert"
    /\ LET r   == req[w]
           v   == r.key
           row == StudentItemRow(student_items, v)
       IN  IF Duplicates(student_items, v) = {}
             THEN /\ student_items' = student_items \cup {row}
                  /\ Goto(w, "done", [r EXCEPT !.status = "ok", !.data = row,
                                               !.prior = "created"])
           ELSE IF Matching(student_items, v) # {}
             THEN /\ student_items' = student_items
                  /\ Goto(w, "done",
                          [r EXCEPT !.status = "ok",
                                    !.data = CHOOSE x \in Matching(student_items, v) : TRUE,
                                    !.prior = "found"])
           ELSE /\ student_items' = student_items
                /\ Goto(w, "done", [r EXCEPT !.status = IntegrityError])
    /\ UNCHANGED <<now, submissions, scores>>
    /\ BackendUnchanged

\* the caller of a ledger request takes the outcome
ledger_return(w) ==
    /\ pc[w] = "done"
    /\ Goto(w, "idle", NoRequest)
    /\ UNCHANGED <<now, ledger>>
    /\ BackendUnchanged

\* an empty ledger; the file-upload backend at rest
InitLedger ==
    /\ now = 0
    /\ settings = Configured
    /\ UPLOAD_URL_TIMEOUT = 2
    /\ DOWNLOAD_URL_TIMEOUT = 1
    /\ cache = <<>>
    /\ files = <<>>
    /\ pc = [w \in Workers |-> "idle"]
    /\ req = [w \in Workers |-> NoRequest]
    /\ upload_issued = <<>>
    /\ written = <<>>
    /\ call = NoCall
    /\ student_items = {}
    /\ submissions = {}
    /\ scores = {}

NextItems ==
    \/ \E w \in Workers, v \in StudentItemValues : create_student_item_get(w, v)
    \/ \E w \in Workers : create_student_item_insert(w)
    \/ \E w \in Workers : ledger_return(w)

\* concurrent workers creating StudentItems in an empty ledger
SpecItems == InitLedger /\ [][NextItems]_vars

MaxSubmissions == 1

MaxScores == 2

AttemptNumbers == {1}

Answers == {"x"}

Points == {1}

\* Score.submission of a Score tied to no Submission (null=True)
NoSubmission == 0

DoesNotExist == "DoesNotExist"

\* append Submission: one row for the StudentItem, submitted and created now
create_submission(w, item, attempt_number, answer) ==
    /\ pc[w] = "idle"
    /\ item \in student_items
    /\ Cardinality(submissions) < MaxSubmissions
    /\ LET row == [id             |-> Cardinality(submissions) + 1,
                   student_item   |-> item.id,
                   attempt_number |-> attempt_number,
                   submitted_at   |-> now,
                   created_at     |-> now,
                   answer         |-> answer]
       IN  /\ submissions' = submissions \cup {row}
           /\ Goto(w, "done", [Request("create_submission", item.id, "")
                                  EXCEPT !.status = "ok", !.data = row])
    /\ UNCHANGED <<now, student_items, scores>>
    /\ BackendUnchanged

\* append Score that overwrites the Score row the StudentItem has
create_score_Update(w, item, submission, points_earned, points_possible) ==
    /\ pc[w] = "idle"
    /\ item \in student_items
    /\ Cardinality(scores) < MaxScores
    /\ submission = NoSubmission
           \/ \E s \in submissions : s.id = submission /\ s.student_item = item.id
    /\ LET old == {s \in scores : s.student_item = item.id}
           row == [id              |-> Cardinality(scores \ old) + 1,
                   student_item    |-> item.id,
                   submission      |-> submission,
                   points_earned   |-> points_earned,
                   points_possible |-> points_possible,
                   created_at      |-> now]
       IN  /\ scores' = (scores \ old) \cup {row}
           /\ Goto(w, "done", [Request("create_score", item.id, "")
                                  EXCEPT !.status = "ok", !.data = row])
    /\ UNCHANGED <<now, student_items, submissions>>
    /\ BackendUnchanged

\* append Score: one row for the StudentItem, tied to one of its
\* Submissions or to none, created now
create_score(w, item, submission, points_earned, points_possible) ==
    /\ pc[w] = "idle"
    /\ item \in student_items
    /\ Cardinality(scores) < MaxScores
    /\ submission = NoSubmission
           \/ \E s \in submissions : s.id = submission /\ s.student_item = item.id
    /\ LET row == [id              |-> Cardinality(scores) + 1,
                   student_item    |-> item.id,
                   submission      |-> submission,
                   points_earned   |-> points_earned,
                   points_possible |-> points_possible,
                   created_at      |-> now]
       IN  /\ scores' = scores \cup {row}
           /\ Goto(w, "done", [Request("create_score", item.id, "")
                                  EXCEPT !.status = "ok", !.data = row])
    /\ UNCHANGED <<now, student_items, submissions>>
    /\ BackendUnchanged

\* the rows of a table for the StudentItem that no other of its rows comes
\* after: later creation time, or the same time and a higher id
MostRecent(rows, item) ==
    {r \in rows :
        /\ r.student_item = item.id
        /\ \A x \in rows :
              x.student_item = item.id
                 => \/ x.created_at < r.created_at
                    \/ (x.created_at = r.created_at /\ x.id <= r.id)}

\* query "most recent Score for StudentItem"
get_score(w, item) ==
    /\ pc[w] = "idle"
    /\ item \in student_items
    /\ LET r     == Request("get_score", item.id, "")
           found == MostRecent(scores, item)
       IN  IF found = {}
             THEN Goto(w, "done", [r EXCEPT !.status = DoesNotExist])
             ELSE Goto(w, "done", [r EXCEPT !.status = "ok",
                                            !.data = CHOOSE x \in found : TRUE])
    /\ UNCHANGED <<now, ledger>>
    /\ BackendUnchanged

\* the clock of the ledger's creation times
ledger_tick ==
    /\ now < MaxTime
    /\ now' = now + 1
    /\ UNCHANGED <<pc, req, ledger>>
    /\ BackendUnchanged

\* the StudentItems of the scoring runs: one item type
ScoredItemValues == {v \in StudentItemValues : v.item_type = "t1"}

NextLedger ==
    \/ ledger_tick
    \/ \E v \in ScoredItemValues : create_student_item_get("w1", v)
    \/ create_student_item_insert("w1")
    \/ \E item \in student_items, n \in AttemptNumbers, answer \in Answers :
           create_submission("w1", item, n, answer)
    \/ \E item \in student_items, points_earned \in Points,
          submission \in {NoSubmission} \cup {s.id : s \in submissions} :
           create_score("w1", item, submission, points_earned, 1)
    \/ \E item \in student_items : get_score("w1", item)
    \/ ledger_return("w1")

\* one scoring workflow on an empty ledger
SpecLedger == InitLedger /\ [][NextLedger]_vars

-----------------------------------------------------------------------------
(* Vocabulary of the properties, stated on the stored data itself *)

\* the cache entry of the upload grant of key k: "upload/" + k
UploadEntry(k) == <<"u", "p", "l", "o", "a", "d", "/">> \o k

\* the cache entry of the download grant of key k: "download/" + k
DownloadEntry(k) == <<"d", "o", "w", "n", "l", "o", "a", "d", "/">> \o k

\* entry e of cache c is live at time t
LiveIn(c, e, t) == e \in DOMAIN c /\ t < c[e]

LiveUploadGrant(k) == LiveIn(cache, UploadEntry(k), now)

LiveDownloadGrant(k) == LiveIn(cache, DownloadEntry(k), now)

\* the content file of key k: "/r/b/" + k + "/content"
ContentFile(k) ==
    <<"/", "r", "/", "b", "/">> \o k \o <<"/", "c", "o", "n", "t", "e", "n", "t">>

\* the content file of key k exists in filesystem fs
BlobIn(fs, k) == ContentFile(k) \in DOMAIN fs

BlobExists(k) == BlobIn(files, k)

\* k is a bare identifier, or a storage key and a file name, both non-empty,
\* joined by "|"
IsLogicalKey(k) ==
    /\ Len(k) > 0
    /\ k[1] # "|"
    /\ \A i \in 1..Len(k) : (k[i] = "|" /\ \A j \in 1..(i - 1) : k[j] # "|")
                               => i < Len(k)

\* the URL of key k: "/s" + k + "/"
UrlOf(k) == <<"/", "s">> \o k \o <<"/">>

\* in this step worker w starts a request of kind op
Starts(w, op) == pc[w] = "idle" /\ pc'[w] # "idle" /\ req'[w].op = op

\* in this step worker w, at position p, takes a step
Leaves(w, p) == pc[w] = p /\ pc'[w] # p

\* worker w holds the outcome st of a request of kind op on key k
Done(w, op, k, st) ==
    /\ pc[w] = "done"
    /\ req[w].op = op
    /\ req[w].key = k
    /\ req[w].status = st

-----------------------------------------------------------------------------
\* C1: a write request whose grant check finds no live upload grant for its
\* key is rejected with access-denied and changes no blob; a read request
\* whose check finds no live download grant is rejected and returns no bytes;
\* a rejected request does nothing more.
C1_NoGrantNoAccess ==
    [][\A w \in Workers :
          /\ (Starts(w, "authorize_and_write") /\ ~LiveUploadGrant(req'[w].key))
                => /\ pc'[w] = "done"
                   /\ req'[w].status = "access-denied"
                   /\ files' = files
          /\ (Starts(w, "authorize_and_read") /\ ~LiveDownloadGrant(req'[w].key))
                => /\ pc'[w] = "done"
                   /\ req'[w].status = "access-denied"
                   /\ req'[w].data = ""
                   /\ files' = files
          /\ (Leaves(w, "done") /\ req[w].status = "access-denied")
                => pc'[w] = "idle" /\ files' = files]_vars

\* a write is rejected after the grant of its key expired, and the blob
\* written under the grant is still there
C1_Witness ==
    \E w \in Workers, k \in Keys :
        /\ Done(w, "authorize_and_write", k, "access-denied")
        /\ k \in DOMAIN upload_issued
        /\ BlobExists(k)

\* C2: after get_upload_url(k) at time t with upload timeout T, a write
\* request for k passes its check at every time before t + T and is rejected
\* with access-denied at every time after t + T, and at every time when T is
\* zero or negative; a request that passed the check completes its write.
C2_UploadWindow ==
    [][\A w \in Workers :
          /\ (Starts(w, "authorize_and_write")
                  /\ req'[w].key \in DOMAIN upload_issued)
                => LET t == upload_issued[req'[w].key]
                       T == UPLOAD_URL_TIMEOUT
                   IN  /\ now < t + T => pc'[w] = "write"
                       /\ (now > t + T \/ T <= 0)
                             => /\ pc'[w] = "done"
                                /\ req'[w].status = "access-denied"
          /\ Leaves(w, "write")
                => /\ pc'[w] = "done"
                   /\ req'[w].status = "ok"
                   /\ BlobIn(files', req[w].key)]_vars

\* with a positive timeout, one write for the key succeeded inside the
\* window and a later one was rejected after it
C2_Witness ==
    \E w1, w2 \in Workers, k \in Keys :
        /\ Done(w1, "authorize_and_write", k, "ok")
        /\ Done(w2, "authorize_and_write", k, "access-denied")
        /\ UPLOAD_URL_TIMEOUT > 0
        /\ k \in DOMAIN upload_issued
        /\ now >= upload_issued[k] + UPLOAD_URL_TIMEOUT

\* C3: the upload grant of a key is live exactly until the time of the most
\* recent get_upload_url call for the key plus the upload timeout, whatever
\* the state of the grant that call found.
C3_RefreshResetsWindow ==
    \A k \in Keys :
        LiveUploadGrant(k) <=>
            /\ k \in DOMAIN upload_issued
            /\ now < upload_issued[k] + UPLOAD_URL_TIMEOUT

\* one call found the grant of the key expired and re-authorized it, another
\* found it live, and the grant is live
C3_Witness ==
    \E w1, w2 \in Workers, k \in Keys :
        /\ Done(w1, "get_upload_url", k, req[w1].status)
        /\ Done(w2, "get_upload_url", k, req[w2].status)
        /\ req[w1].prior = "expired"
        /\ req[w2].prior = "live"
        /\ LiveUploadGrant(k)

\* C4: get_download_url(k) returns the empty URL if and only if the content
\* file of k does not exist at the call; when it exists the call goes on to
\* return the URL of k, which is not empty (for a key that is no logical key,
\* URL construction raises NoReverseMatch and no URL is returned at all).
C4_EmptyUrlIffAbsent ==
    [][\A w \in Workers :
          /\ Starts(w, "get_download_url")
                => /\ (pc'[w] = "done" /\ req'[w].status = "ok"
                          /\ req'[w].url = <<>>)
                      <=> ~BlobExists(req'[w].key)
                   /\ BlobExists(req'[w].key) => pc'[w] = "grant"
          /\ Leaves(w, "grant")
                => /\ pc'[w] = "done"
                   /\ IsLogicalKey(req[w].key)
                         => /\ req'[w].status = "ok"
                            /\ req'[w].url = UrlOf(req[w].key)
                            /\ req'[w].url # <<>>
                   /\ ~IsLogicalKey(req[w].key)
                         => req'[w].status = NoReverseMatch]_vars

\* a download URL was returned for a composite key whose content exists
C4_Witness ==
    \E w \in Workers :
        /\ Done(w, "get_download_url", <<"a", "|", "f">>, "ok")
        /\ req[w].url = UrlOf(<<"a", "|", "f">>)
        /\ BlobExists(<<"a", "|", "f">>)

\* C5: get_download_url(k) for a key whose content file does not exist
\* returns the empty URL and leaves the cache as it is: no grant is set or
\* refreshed.
C5_AbsentBlobNoGrant ==
    [][\A w \in Workers :
          (Starts(w, "get_download_url") /\ ~BlobExists(req'[w].key))
             => /\ cache' = cache
                /\ pc'[w] = "done"
                /\ req'[w].url = <<>>]_vars

\* the download URL of a key never written came back empty, and a read
\* request for the key was rejected
C5_Witness ==
    \E w1, w2 \in Workers, k \in Keys :
        /\ Done(w1, "get_download_url", k, "ok")
        /\ req[w1].url = <<>>
        /\ k \notin DOMAIN written
        /\ ~LiveDownloadGrant(k)
        /\ Done(w2, "authorize_and_read", k, "access-denied")

\* C6: grants are independent per key and per direction: the cache entries
\* of the upload and the download grants of all keys are pairwise distinct;
\* a get_upload_url call changes no download grant and no upload grant of
\* another key; a get_download_url call changes no upload grant and no
\* download grant of another key.
C6_GrantsIndependent ==
    [][/\ \A k1, k2 \in Keys :
             /\ get_upload_cache_key(k1) # get_download_cache_key(k2)
             /\ get_upload_cache_key(k1) = get_upload_cache_key(k2) => k1 = k2
             /\ get_download_cache_key(k1) = get_download_cache_key(k2) => k1 = k2
       /\ \A w \in Workers, k \in Keys :
             /\ (Starts(w, "get_upload_url") /\ req'[w].key # k)
                   => /\ LiveIn(cache', UploadEntry(k), now)
                            <=> LiveUploadGrant(k)
                      /\ LiveUploadGrant(k)
                            => cache'[UploadEntry(k)] = cache[UploadEntry(k)]
             /\ Starts(w, "get_upload_url")
                   => /\ LiveIn(cache', DownloadEntry(k), now)
                            <=> LiveDownloadGrant(k)
                      /\ LiveDownloadGrant(k)
                            => cache'[DownloadEntry(k)] = cache[DownloadEntry(k)]
             /\ (Leaves(w, "grant") /\ req[w].key # k)
                   => /\ LiveIn(cache', DownloadEntry(k), now)
                            <=> LiveDownloadGrant(k)
                      /\ LiveDownloadGrant(k)
                            => cache'[DownloadEntry(k)] = cache[DownloadEntry(k)]
             /\ Leaves(w, "grant")
                   => /\ LiveIn(cache', UploadEntry(k), now)
                            <=> LiveUploadGrant(k)
                      /\ LiveUploadGrant(k)
                            => cache'[UploadEntry(k)] = cache[UploadEntry(k)]]_vars

\* a read of a key is rejected while the upload grant of the same key and
\* the download grant of another key are live
C6_Witness ==
    \E w \in Workers, k1, k2 \in Keys :
        /\ k1 # k2
        /\ Done(w, "authorize_and_read", k1, "access-denied")
        /\ LiveUploadGrant(k1)
        /\ LiveDownloadGrant(k2)

\* C7: using a grant does not consume it: the steps of a write request and
\* of a read request leave the cache as it is, and a live grant stops being
\* live only when time passes its expiry.
C7_GrantNotConsumed ==
    [][/\ \A w \in Workers :
             (\/ Starts(w, "authorize_and_write")
              \/ Starts(w, "authorize_and_read")
              \/ Leaves(w, "write")
              \/ Leaves(w, "read")) => cache' = cache
       /\ \A k \in Keys :
             /\ (LiveUploadGrant(k) /\ ~LiveIn(cache', UploadEntry(k), now'))
                   => now' = now + 1 /\ now' >= cache[UploadEntry(k)]
             /\ (LiveDownloadGrant(k) /\ ~LiveIn(cache', DownloadEntry(k), now'))
                   => now' = now + 1 /\ now' >= cache[DownloadEntry(k)]]_vars

\* two write requests for the same key both succeeded under one grant, which
\* is still live
C7_Witness ==
    \E w1, w2 \in Workers, k \in Keys :
        /\ w1 # w2
        /\ Done(w1, "authorize_and_write", k, "ok")
        /\ Done(w2, "authorize_and_write", k, "ok")
        /\ LiveUploadGrant(k)
        /\ req[w1].data # req[w2].data

\* C8: the content file of every key holds exactly the payload of the most
\* recent completed write for that key (a write to one key changes the
\* content of no other key, a write to a key with content replaces it), and
\* the blob read of a read request returns the content of its key.
C8_RoundTripLastWriter ==
    [][/\ \A k \in Keys :
             /\ BlobIn(files', k) <=> k \in DOMAIN written'
             /\ k \in DOMAIN written' => files'[ContentFile(k)] = written'[k]
       /\ \A w \in Workers :
             /\ Leaves(w, "write")
                   => /\ written'[req[w].key] = req[w].data
                      /\ \A k \in Keys \ {req[w].key} :
                            /\ k \in DOMAIN written' <=> k \in DOMAIN written
                            /\ k \in DOMAIN written => written'[k] = written[k]
             /\ (Leaves(w, "read") /\ BlobExists(req[w].key))
                   => /\ req'[w].status = "ok"
                      /\ req'[w].data = written[req[w].key]]_vars

\* a key was written with one payload, written again with another, and a
\* read returned the second
C8_Witness ==
    \E w1, w2 \in Workers, k \in Keys :
        /\ Done(w1, "authorize_and_write", k, "ok")
        /\ Done(w2, "authorize_and_read", k, "ok")
        /\ req[w1].data = "b1"
        /\ req[w2].data = "b2"
        /\ written[k] = "b2"

\* C9: remove_file(k) raises no error whether or not the content file of k
\* exists; after it the file is absent and the content of every other key is
\* as before; on a key whose file is absent it changes nothing.
C9_RemoveIdempotent ==
    [][\A w \in Workers :
          Starts(w, "remove_file")
             => /\ pc'[w] = "done"
                /\ req'[w].status = "ok"
                /\ ~BlobIn(files', req'[w].key)
                /\ \A k \in Keys \ {req'[w].key} :
                      /\ BlobIn(files', k) <=> BlobExists(k)
                      /\ BlobExists(k) => files'[ContentFile(k)] = files[ContentFile(k)]
                /\ ~BlobExists(req'[w].key) => files' = files]_vars

\* the first remove_file of a key removed its file, the second found it
\* absent, and both returned
C9_Witness ==
    \E w1, w2 \in Workers, k \in Keys :
        /\ Done(w1, "remove_file", k, "ok")
        /\ Done(w2, "remove_file", k, "ok")
        /\ req[w1].prior = "removed"
        /\ req[w2].prior = "absent"
        /\ ~BlobExists(k)

\* C10: remove_file(k) leaves the cache as it is and returns whether or not
\* a grant for k is live.
C10_RemoveKeepsGrants ==
    [][\A w \in Workers :
          Starts(w, "remove_file")
             => /\ cache' = cache
                /\ pc'[w] = "done"
                /\ req'[w].status = "ok"]_vars

\* the file of a key was removed while its download grant is live, and the
\* file of another key exists with no live grant
C10_Witness ==
    \E w \in Workers, k1, k2 \in Keys :
        /\ Done(w, "remove_file", k1, "ok")
        /\ req[w].prior = "removed"
        /\ LiveDownloadGrant(k1)
        /\ ~BlobExists(k1)
        /\ BlobExists(k2)
        /\ ~LiveUploadGrant(k2)
        /\ ~LiveDownloadGrant(k2)

\* text s has no "|"
NoPipe(s) == \A i \in 1..Len(s) : s[i] # "|"

\* the storage key and the file name of key k, cut at its first "|": the
\* whole key and no file name when k has no "|"
FirstPipePair(k) ==
    IF NoPipe(k) THEN [key |-> k]
    ELSE LET i == CHOOSE i \in 1..Len(k) :
                      k[i] = "|" /\ \A j \in 1..(i - 1) : k[j] # "|"
         IN  [key |-> SubSeq(k, 1, i - 1), filename |-> SubSeq(k, i + 1, Len(k))]

\* C11: _get_url splits the key at its first "|" only: the text before it is
\* the storage key and all the text after it, further "|" included, is the
\* file name; a key with no "|" is the storage key whole, with no file name.
\* The URL patterns resolve the URL that _get_url returns to the same storage
\* key and file name, and the storage key has no "|".
C11_SplitFirstPipe ==
    /\ call.fn = "_get_url"
          => /\ call.kwargs = FirstPipePair(call.key)
             /\ NoPipe(call.kwargs.key)
             /\ NoPipe(call.key) <=> DOMAIN call.kwargs = {"key"}
    /\ call.fn = "resolve"
          => /\ call.status = "ok"
             /\ call.kwargs = FirstPipePair(call.key)
             /\ NoPipe(call.kwargs.key)

\* the URL of the key "a|a|a" was resolved to the storage key "a" and the
\* file name "a|a"
C11_Witness ==
    /\ call.fn = "resolve"
    /\ call.key = <<"a", "|", "a", "|", "a">>
    /\ call.status = "ok"
    /\ call.kwargs = [key |-> <<"a">>, filename |-> <<"a", "|", "a">>]
\* the content file under the part of key k before its first "|":
\* "/r/b/" + storage key + "/content"
StorageKeyFile(k) ==
    <<"/", "r", "/", "b", "/">> \o FirstPipePair(k).key
        \o <<"/", "c", "o", "n", "t", "e", "n", "t">>

\* C12 as stated: _get_file_path(k) is root / bucket / storage key /
\* "content", the storage key being the part of k before its first "|", and
\* the existence check of get_download_url(k) looks at that file: the call
\* goes on to the grant exactly when that file exists.
C12_StorageKeyLocation ==
    [][\A w \in Workers :
          Starts(w, "get_download_url")
             => (pc'[w] = "grant"
                   <=> StorageKeyFile(req'[w].key) \in DOMAIN files)]_vars

\* C12, amended: _get_file_path(k) is root / bucket / k / "content" with the
\* whole key k, its "|" and file name included, as the one path segment
\* below the bucket, and the existence check of get_download_url(k) looks
\* at that file: the call goes on to the grant exactly when that file exists.
C12_WholeKeyLocation ==
    [][\A w \in Workers :
          Starts(w, "get_download_url")
             => /\ get_file_path(get_key_name(req'[w].key))
                      = ContentFile(req'[w].key)
                /\ pc'[w] = "grant" <=> ContentFile(req'[w].key) \in DOMAIN files]_vars

\* get_download_url("a|f") returned the empty URL while the content file of
\* the storage key "a" exists
C12_Witness ==
    \E w \in Workers :
        /\ Done(w, "get_download_url", <<"a", "|", "f">>, "ok")
        /\ req[w].url = <<>>
        /\ StorageKeyFile(<<"a", "|", "f">>) \in DOMAIN files
        /\ ContentFile(<<"a", "|", "f">>) \notin DOMAIN files
\* no cache name is set in the settings
NoCacheBinding == settings.ORA2_FILEUPLOAD_CACHE_NAME = "None"

\* no root directory is set in the settings
NoRootDirectory == settings.ORA2_FILEUPLOAD_ROOT = <<>>

\* in this step the request of worker w ends with the configuration error,
\* no URL returned, and the cache and the filesystem are as before
RaisesConfigError(w) ==
    /\ pc'[w] = "done"
    /\ req'[w].status = "FileUploadInternalError"
    /\ req'[w].url = <<>>
    /\ cache' = cache
    /\ files' = files

\* C13: with no cache name set, get_upload_url, get_download_url for a key
\* whose content file exists, and the grant checks of the write and the read
\* request raise FileUploadInternalError; with no root directory set,
\* get_download_url raises it rather than return the empty URL.  A request
\* that raised it returned no URL, set no grant and changed no file.
C13_MissingConfigRaises ==
    [][\A w \in Workers :
          /\ (Starts(w, "get_upload_url") /\ NoCacheBinding)
                => RaisesConfigError(w)
          /\ (Starts(w, "get_download_url") /\ NoCacheBinding
                  /\ ~NoRootDirectory /\ BlobExists(req'[w].key))
                => pc'[w] = "grant" /\ cache' = cache /\ files' = files
          /\ (Leaves(w, "grant") /\ NoCacheBinding)
                => RaisesConfigError(w)
          /\ (Starts(w, "authorize_and_write") /\ NoCacheBinding)
                => RaisesConfigError(w)
          /\ (Starts(w, "authorize_and_read") /\ NoCacheBinding)
                => RaisesConfigError(w) /\ req'[w].data = ""
          /\ (Starts(w, "get_download_url") /\ NoRootDirectory)
                => RaisesConfigError(w)
          /\ (Leaves(w, "done") /\ req[w].status = "FileUploadInternalError")
                => pc'[w] = "idle" /\ cache' = cache /\ files' = files]_vars

\* with no cache name set, get_download_url of a key whose content file
\* exists has raised the error, and no grant is in the cache
C13_Witness ==
    \E w \in Workers :
        /\ NoCacheBinding
        /\ ~NoRootDirectory
        /\ Done(w, "get_download_url", <<"a">>, "FileUploadInternalError")
        /\ BlobExists(<<"a">>)
        /\ cache = <<>>
\* rows r1 and r2 are for the same student, course and item
SameTriple(r1, r2) ==
    /\ r1.course_id = r2.course_id
    /\ r1.student_id = r2.student_id
    /\ r1.item_id = r2.item_id

\* C14: no two rows of the StudentItem table have the same (course_id,
\* student_id, item_id); a create whose INSERT meets a row with the same
\* triple adds no row: it raises IntegrityError or returns the row that
\* exists, whatever the item_type asked for.
C14_StudentItemUnique ==
    [][/\ \A r1, r2 \in student_items' : SameTriple(r1, r2) => r1 = r2
       /\ \A w \in Workers :
             /\ (Starts(w, "create_student_item")
                    /\ \E x \in student_items : SameTriple(x, req'[w].key)
                    /\ pc'[w] = "done")
                   => /\ student_items' = student_items
                      /\ req'[w].status = "ok"
                      /\ req'[w].data \in student_items
                      /\ SameTriple(req'[w].data, req'[w].key)
             /\ (Leaves(w, "insert")
                    /\ \E x \in student_items : SameTriple(x, req[w].key))
                   => /\ student_items' = student_items
                      /\ \/ req'[w].status = "IntegrityError"
                         \/ /\ req'[w].status = "ok"
                            /\ req'[w].data \in student_items
                            /\ SameTriple(req'[w].data, req[w].key)]_vars

\* two concurrent creates for the same triple with different item_type: one
\* created the row, the other raised IntegrityError, and the table has the
\* one row
C14_Witness ==
    \E w1, w2 \in Workers :
        /\ w1 # w2
        /\ pc[w1] = "done" /\ req[w1].op = "create_student_item"
        /\ pc[w2] = "done" /\ req[w2].op = "create_student_item"
        /\ req[w1].status = "ok" /\ req[w1].prior = "created"
        /\ req[w2].status = "IntegrityError"
        /\ SameTriple(req[w1].key, req[w2].key)
        /\ req[w1].key.item_type # req[w2].key.item_type
        /\ Cardinality(student_items) = 1
\* C15: every step of a ledger operation keeps every Submission row and
\* every Score row as it is and adds at most one row in all; scoring a
\* StudentItem again adds a Score row; the Score returned as current for a
\* StudentItem is a row of the table for that item with the greatest
\* created_at, tied to a Submission or not.
C15_AppendOnly ==
    [][/\ submissions \subseteq submissions'
       /\ scores \subseteq scores'
       /\ Cardinality(submissions' \ submissions)
             + Cardinality(scores' \ scores) <= 1
       /\ \A r1, r2 \in scores' : r1.id = r2.id => r1 = r2
       /\ \A w \in Workers :
             /\ Starts(w, "create_score")
                   => /\ Cardinality(scores') = Cardinality(scores) + 1
                      /\ req'[w].data \in scores' \ scores
                      /\ req'[w].data.student_item = req'[w].key
                      /\ req'[w].data.created_at = now
             /\ Starts(w, "get_score")
                   => LET mine == {s \in scores : s.student_item = req'[w].key}
                      IN  /\ pc'[w] = "done"
                          /\ mine = {} <=> req'[w].status = "DoesNotExist"
                          /\ mine # {}
                                => /\ req'[w].status = "ok"
                                   /\ req'[w].data \in mine
                                   /\ \A s \in mine :
                                         s.created_at <= req'[w].data.created_at]_vars

\* a StudentItem was scored for a Submission and later scored again with no
\* Submission; both rows are in the table and the second is the current one
C15_Witness ==
    \E w \in Workers, s \in scores :
        /\ pc[w] = "done"
        /\ req[w].op = "get_score"
        /\ req[w].status = "ok"
        /\ req[w].data \in scores
        /\ req[w].data.submission = 0
        /\ s.student_item = req[w].data.student_item
        /\ s.submission # 0
        /\ s.created_at < req[w].data.created_at
\* C16: two write sequences on the same key do not hinder each other.  A
\* write request whose check comes before the expiry of the most recent
\* grant of its key passes, whichever sequence set that grant and whatever
\* the other request is doing; the blob write of a request that passed is
\* never refused: it succeeds, makes its payload the content of the key and
\* leaves the other request where it is; the content of a key changes in no
\* step but a blob write or a remove_file of that key, so that after both
\* writes it is the payload of the later one.
C16_ConcurrentWritersRace ==
    [][/\ \A w \in Workers :
             /\ (Starts(w, "authorize_and_write")
                    /\ req'[w].key \in DOMAIN upload_issued
                    /\ now < upload_issued[req'[w].key] + UPLOAD_URL_TIMEOUT)
                   => pc'[w] = "write"
             /\ Leaves(w, "write")
                   => /\ pc'[w] = "done"
                      /\ req'[w].status = "ok"
                      /\ BlobIn(files', req[w].key)
                      /\ files'[ContentFile(req[w].key)] = req[w].data
                      /\ \A v \in Workers \ {w} :
                            pc'[v] = pc[v] /\ req'[v] = req[v]
       /\ \A k \in Keys :
             (\/ BlobIn(files', k) # BlobExists(k)
              \/ (BlobExists(k) /\ files'[ContentFile(k)] # files[ContentFile(k)]))
                => \E w \in Workers :
                      \/ Leaves(w, "write") /\ req[w].key = k
                      \/ Starts(w, "remove_file") /\ req'[w].key = k]_vars

\* both workers asked for an upload URL of the same key and each passed the
\* grant check with a payload of its own: the two blob writes are pending,
\* in either order
C16_Witness ==
    \E k \in Keys :
        /\ pc["w1"] = "write" /\ req["w1"].key = k
        /\ pc["w2"] = "write" /\ req["w2"].key = k
        /\ req["w1"].data = "b1"
        /\ req["w2"].data = "b2"
        /\ LiveUploadGrant(k)
\* C17: the grant check and the blob write of a write request are two steps.
\* The check step writes no file and sends the request on to the blob write
\* exactly when the upload grant of its key is live; a request comes to the
\* blob write in no other way, and every file written is written by the blob
\* write of such a request; the blob write does not look at the cache: it
\* succeeds whether or not the grant is still live.
C17_CheckThenWrite ==
    [][/\ \A w \in Workers :
             /\ Starts(w, "authorize_and_write")
                   => /\ files' = files
                      /\ pc'[w] = "write" <=> LiveUploadGrant(req'[w].key)
             /\ (pc'[w] = "write" /\ pc[w] # "write")
                   => /\ Starts(w, "authorize_and_write")
                      /\ LiveUploadGrant(req'[w].key)
             /\ (pc[w] = "write" /\ pc'[w] = "write") => req'[w].key = req[w].key
             /\ Leaves(w, "write")
                   => /\ req[w].op = "authorize_and_write"
                      /\ cache' = cache
                      /\ pc'[w] = "done"
                      /\ req'[w].status = "ok"
                      /\ BlobIn(files', req[w].key)
                      /\ files'[ContentFile(req[w].key)] = req[w].data
       /\ \A k \in Keys :
             (BlobIn(files', k)
                /\ (BlobExists(k) => files'[ContentFile(k)] # files[ContentFile(k)]))
                => \E w \in Workers : Leaves(w, "write") /\ req[w].key = k]_vars

\* a write request passed the check, the grant expired, and its blob write
\* then succeeded with no upload grant of the key live
C17_Witness ==
    \E w \in Workers, k \in Keys :
        /\ Done(w, "authorize_and_write", k, "ok")
        /\ req[w].prior = "expired"
        /\ BlobExists(k)
        /\ ~LiveUploadGrant(k)
\* C18: whenever get_download_url(k) sets the download grant and returns a
\* URL that is not empty, the content file of k exists at that step, whatever
\* remove_file(k) calls run between its existence check and that step.
C18_UrlRefersToContent ==
    [][\A w \in Workers :
          (Leaves(w, "grant") /\ req'[w].status = "ok" /\ req'[w].url # <<>>)
             => BlobExists(req[w].key) /\ BlobIn(files', req[w].key)]_vars
\* C19: get_upload_url(k) and get_download_url(k) change the cache only in
\* a step that also returns a URL to the caller; a call that ends with an
\* error raised, as NoReverseMatch for a key whose storage part is empty,
\* leaves the cache as it was.
C19_GrantAndUrlTogether ==
    [][\A w \in Workers :
          (Starts(w, "get_upload_url") \/ Leaves(w, "grant"))
             => /\ cache' # cache
                   => /\ pc'[w] = "done"
                      /\ req'[w].status = "ok"
                      /\ req'[w].url # <<>>
                /\ (pc'[w] = "done" /\ req'[w].status # "ok")
                   => cache' = cache]_vars
\* key k is one the URL patterns accept: not empty, and free of newlines
AcceptedKey(k) == Len(k) > 0 /\ \A i \in 1..Len(k) : k[i] # "\n"

\* text p begins with text q
BeginsWith(p, q) == Len(p) >= Len(q) /\ SubSeq(p, 1, Len(q)) = q

\* path p, taken as the operating system resolves it, is below the bucket
\* directory "/r/b"
InsideBucket(p) == BeginsWith(NormPath(p), <<"/", "r", "/", "b", "/">>)

\* C20: for every key the URL patterns accept, the content path that
\* _get_file_path computes is below root / bucket, and it is neither the
\* content file of another accepted key nor a directory on the way to one.
C20_ConfinedCollisionFree ==
    (call.fn = "_get_file_path" /\ AcceptedKey(call.key))
       => /\ InsideBucket(call.path)
          /\ \A k \in AddrKeys \ {call.key} :
                AcceptedKey(k)
                   => LET other == NormPath(get_file_path(get_key_name(k)))
                      IN  /\ other # NormPath(call.path)
                          /\ ~BeginsWith(other, NormPath(call.path) \o <<"/">>)
====
